---- MODULE Spec2Model ----
(***************************************************************************)
(* Model of the decrypt scheduler of the graphical interface (gui.py,      *)
(* class YSTApplication) and of the entry point with its compatibility     *)
(* loop (main.py, main).                                                   *)
(*                                                                         *)
(* Threads: the coordinating (Tk main) thread runs decrypt_file,           *)
(* process_queue and the deferred callbacks; every admitted task runs in   *)
(* a worker thread of its own (process_decrypt_task).  The Classifier,     *)
(* the Driver and the file system are collaborators outside these two      *)
(* files: each call to them is a choice over every result the call can     *)
(* have, an exception included.                                            *)
(***************************************************************************)
EXTENDS Integers, Sequences, FiniteSets, TLC

\* ---------------------------------------------------------------- bounds
\* Total number of decrypt tasks put on the queue in one run.
MaxTasks == 2
\* Largest max_threads value found in the configuration.
MaxThreadsSetting == 1
\* Largest number of files the workers of one run find encrypted.
MaxEncrypted == 1
\* Largest number of path arguments of a compatibility run.
MaxArgs == 2

\* characters of a version string
MaxVersionLen == 3
\* characters typed into a field of the settings panel
MaxFieldLen == 2

\* ------------------------------------------------------------- constants
\* settings.get('max_threads', 5)
DefaultMaxThreads == 5

\* None where a path is expected, and the empty string: both are falsy
NoPath == <<>>

\* status_code of a DetectionResult
StatusCodes == {-1, 0, 1, 2}

\* status_code of the status Unrecognized
Unrecognized == 2

\* ----------------------------------------------------------- file system
\* Paths are sequences of names; os.path.join(root, file) appends a name.
Join(root, file) == Append(root, file)

\* The directory tree the user can point the tool at: directory d holds
\* file a and directory s, which holds file b; f is not a directory.  Files
\* and directories are listed in os.walk's order.
DirFiles(dir) ==
    CASE dir = <<"d">> -> <<"a">>
      [] dir = <<"d", "s">> -> <<"b">>
      [] OTHER -> <<>>

DirSubdirs(dir) ==
    CASE dir = <<"d">> -> <<"s">>
      [] OTHER -> <<>>

Directories == {<<"d">>, <<"d", "s">>}
RegularFiles == {<<"f">>, <<"d", "a">>, <<"d", "s", "b">>}

\* os.path.isdir
isdir(path) == path \in Directories

\* the paths the file_path entry of the window can hold ("" is <<>>)
SelectablePaths == {<<>>, <<"f">>, <<"d">>}

RECURSIVE JoinAll(_, _)
JoinAll(root, files) ==
    IF files = <<>> THEN <<>>
    ELSE <<Join(root, Head(files))>> \o JoinAll(root, Tail(files))

\* os_walk listing the top directory only
os_walk_TopOnly(path) == JoinAll(path, DirFiles(path))

\* for root, _, files in os.walk(path): for file in files: join(root, file)
RECURSIVE WalkDirs(_, _)
os_walk(path) == JoinAll(path, DirFiles(path)) \o WalkDirs(path, DirSubdirs(path))
WalkDirs(root, dirs) ==
    IF dirs = <<>> THEN <<>>
    ELSE os_walk(Join(root, Head(dirs))) \o WalkDirs(root, Tail(dirs))

\* ------------------------------------------------------------- variables
VARIABLES
    argv,            \* sys.argv[1:]
    mode,            \* where main is: "init", then the mode it selected
    max_threads,     \* self.max_threads
    task_queue,      \* self.task_queue, oldest first
    thread_pool,     \* self.thread_pool, a list of threads (by id)
    worker,          \* the threads started, by id, each with the callbacks
                     \* it deferred with after(0, ...) and the lines of the
                     \* result panel (result_text) inserted for it
    tick_scheduled,  \* pending after(100, self.process_queue) timers
    tasks,           \* history: file_path of every task ever put, by id
    requests,        \* history: the decrypt requests and the ids they put
    started,         \* history: ids in the order their threads were started
    encrypted_found, \* history: files the workers have found encrypted
    cli_i,           \* compatibility loop: number of paths processed
    stdout,          \* compatibility loop: lines printed
    cli_trace,       \* history: what was called for each path argument
    version1,        \* _compare_versions: its first argument
    version2,        \* _compare_versions: its second argument
    compared,        \* _compare_versions: <<>>, then the value it returned
    requests_available, \* REQUESTS_AVAILABLE: whether requests was imported
    update_pc,       \* check_for_updates: "idle", "thread" once the check
                     \* thread is started, "done" when the check has ended
    update_status,   \* history: the values update_status_var was set to
    update_after,    \* callbacks the check thread deferred with after(0, ...)
    update_shown,    \* history: the message boxes shown for the check
    update_trace,    \* history: the response the check got, the version it
                     \* read and the value of the comparison
    extension_var,   \* settings panel: the text of the extension field
    header_var,      \* settings panel: the text of the header field
    header_type_var, \* settings panel: the text of the file type field
    panel_op         \* history: the last add operation of the panel: what
                     \* was typed, the registry calls it made, the message
                     \* boxes it showed and the lines it logged

vars == <<argv, mode, max_threads, task_queue, thread_pool, worker,
          tick_scheduled, tasks, requests, started, encrypted_found,
          cli_i, stdout, cli_trace, version1, version2, compared,
          requests_available, update_pc, update_status, update_after,
          update_shown, update_trace, extension_var, header_var,
          header_type_var, panel_op>>

gui_vars == <<max_threads, task_queue, thread_pool, worker,
              tick_scheduled, tasks, requests, started, encrypted_found>>

cli_vars == <<cli_i, stdout, cli_trace>>

main_vars == <<argv, mode, gui_vars, cli_vars>>

version_vars == <<version1, version2, compared>>

update_vars == <<requests_available, update_pc, update_status, update_after,
                 update_shown, update_trace>>

panel_vars == <<extension_var, header_var, header_type_var, panel_op>>

\* what the window's scheduler and the command line leave alone
other_vars == <<version_vars, update_vars, panel_vars>>

\* ------------------------------------------------------- small operators
Last(s) == s[Len(s)]

Range(s) == {s[i] : i \in 1..Len(s)}

\* dict.get(key, default) on the settings; a key that is not set is not in
\* the dict
Get(dict, key, default) == IF key \in DOMAIN dict THEN dict[key] ELSE default

\* str.lower() on the words an argument can be
Lower(word) ==
    CASE word = "--HELP" -> "--help"
      [] word = "-V" -> "-v"
      [] word = "Check" -> "check"
      [] OTHER -> word

\* a printed line: what it says, the path it names (NoPath when none) and
\* the status it names (as the sequence of its status_code, empty when none)
Line(kind, path, status) == [kind |-> kind, path |-> path, status |-> status]

\* one line of the result panel: the message (its kind and the path it
\* names, NoPath when the message names no path) and its tag
Entry(kind, path, tag) == [kind |-> kind, path |-> path, tag |-> tag]

\* add_result inserting its line twice
add_result_Twice(lines, entry) == Append(Append(lines, entry), entry)

\* add_result: result_text.insert(END, message, tag); the panel is kept as
\* the lines inserted for each thread, in the order of their insertion
add_result(lines, entry) == Append(lines, entry)

\* threading.Thread(target=process_decrypt_task, args=(file_path,)), started;
\* result and verify_result hold the status_code of the DetectionResult once
\* the local variable is bound; emitted holds the entries of the callbacks
\* the thread has deferred with after(0, ...), oldest first, handled tells
\* how many of them have run, and rendered holds the lines add_result has
\* inserted for the thread; the counts of calls are history.  Callbacks of
\* one thread run in the order deferred; the order between the callbacks of
\* two threads is the order in which their after calls reach the
\* interpreter, which is open.
\* a tick that arms the timer twice
after_Twice(pending) == pending + 2

\* self.after(100, self.process_queue): one more timer is pending
after(pending) == pending + 1

NewThread(file_path) ==
    [file_path |-> file_path, pc |-> "classify", result |-> <<>>,
     decrypted_path |-> NoPath, verify_result |-> <<>>, driver_calls |-> 0,
     verify_calls |-> 0, raised |-> FALSE, emitted |-> <<>>, handled |-> 0,
     rendered |-> <<>>]

\* thread.is_alive()
is_alive(w, id) == w[id].pc # "done"

\* a callback deferred by thread id has not run yet
HasCallback(w, id) == w[id].handled < Len(w[id].emitted)

\* ------------------------------------------------------------------ Init
PathArgs == {"p", "q"}

ArgvChoices ==
    {<<>>, <<"--help">>, <<"--HELP">>, <<"-v">>, <<"-V">>,
     <<"check", "p">>, <<"Check", "p">>}
    \cup UNION {[1..n -> PathArgs] : n \in 1..MaxArgs}

\* config_manager.get_settings(): what the configuration can hold when it
\* is read
SettingsChoices ==
    LET threads == {<<>>} \cup {[max_threads |-> n] : n \in 0..MaxThreadsSetting}
        program == {<<>>, [wps_path |-> <<"wps">>]}
    IN {t @@ p : t \in threads, p \in program}

\* no version comparison is under way
VersionIdle ==
    /\ version1 = <<>>
    /\ version2 = <<>>
    /\ compared = <<>>

\* no update check has been asked for; the label reads "点击检查新版本"
UpdateIdle ==
    /\ update_pc = "idle"
    /\ update_status = <<"click_to_check">>
    /\ update_after = <<>>
    /\ update_shown = <<>>
    /\ update_trace = <<>>

\* what one add operation of the settings panel did
PanelOp(op, input, calls, shown, logged) ==
    [op |-> op, input |-> input, calls |-> calls, shown |-> shown, logged |-> logged]

\* the fields of the settings panel are empty and nothing has been added
PanelIdle ==
    /\ extension_var = <<>>
    /\ header_var = <<>>
    /\ header_type_var = <<>>
    /\ panel_op = PanelOp("none", <<>>, <<>>, <<>>, <<>>)

\* the program before main has selected its mode
MainIdle ==
    /\ mode = "init"
    /\ max_threads = 0
    /\ task_queue = <<>>
    /\ thread_pool = <<>>
    /\ worker = <<>>
    /\ tick_scheduled = 0
    /\ tasks = <<>>
    /\ requests = <<>>
    /\ started = <<>>
    /\ encrypted_found = 0
    /\ cli_i = 0
    /\ stdout = <<>>
    /\ cli_trace = <<>>

Init ==
    /\ argv \in ArgvChoices
    /\ MainIdle
    /\ VersionIdle
    /\ requests_available = TRUE
    /\ UpdateIdle
    /\ PanelIdle

\* ------------------------------------------------------------------ main
\* a variant that compares the first argument as it was typed
SelectMode_CaseSensitive(args) ==
    IF Len(args) > 0
    THEN LET first_arg == args[1] IN
         IF first_arg \in {"-h", "--help", "help"} THEN "help"
         ELSE IF first_arg \in {"-v", "--version", "version"} THEN "version"
         ELSE IF first_arg \in {"check", "unlock", "scan", "batch-unlock"} THEN "cli"
         ELSE "compat"
    ELSE "gui"

\* the mode main selects from its arguments
SelectMode(args) ==
    IF Len(args) > 0
    THEN LET first_arg == Lower(args[1]) IN
         IF first_arg \in {"-h", "--help", "help"} THEN "help"
         ELSE IF first_arg \in {"-v", "--version", "version"} THEN "version"
         ELSE IF first_arg \in {"check", "unlock", "scan", "batch-unlock"} THEN "cli"
         ELSE "compat"
    ELSE "gui"

\* main up to the point where the selected mode takes over; for the
\* graphical mode this is run_gui up to the end of YSTApplication.__init__
Main ==
    /\ mode = "init"
    /\ mode' = SelectMode(argv)
    /\ IF mode' = "gui"
       THEN /\ \E settings \in SettingsChoices :
                max_threads' = Get(settings, "max_threads", DefaultMaxThreads)
            /\ task_queue' = <<>>
            /\ thread_pool' = <<>>
            /\ tick_scheduled' = after(0)
            /\ UNCHANGED <<worker, tasks, requests, started, encrypted_found>>
       ELSE UNCHANGED gui_vars
    /\ stdout' = IF mode' \in {"help", "version"}
                 THEN Append(stdout, Line(mode', NoPath, <<>>))
                 ELSE stdout
    /\ UNCHANGED <<argv, cli_i, cli_trace>>
    /\ UNCHANGED other_vars

\* ---------------------------------------------------------- decrypt_file
\* the tasks decrypt_file puts for a path
FilesToPut(path) == IF isdir(path) THEN os_walk(path) ELSE <<path>>

\* task_queue.put(('decrypt', file_path)) for each path of a sequence; id is
\* history, the number of the put
RECURSIVE PutAll(_, _, _)
PutAll(q, paths, next_id) ==
    IF paths = <<>> THEN q
    ELSE PutAll(Append(q, [task_type |-> "decrypt", file_path |-> Head(paths),
                           id |-> next_id]),
                Tail(paths), next_id + 1)

\* decrypt_file: an empty path gets the warning and nothing else; otherwise
\* the tasks are put.  The update() inside its add_result handles the events
\* that are pending (a due tick, deferred callbacks, another click) before
\* the puts; nothing they read has been written by the method at that
\* point, so the method is one step, taken at its puts.  The panel it
\* clears and the heading it inserts are no line of any thread.
DecryptFile ==
    /\ mode = "gui"
    /\ \E path \in SelectablePaths :
        LET files == FilesToPut(path) IN
        IF path = <<>>
        THEN UNCHANGED <<task_queue, tasks, requests>>
        ELSE /\ Len(tasks) + Len(files) <= MaxTasks
             /\ task_queue' = PutAll(task_queue, files, Len(tasks) + 1)
             /\ tasks' = tasks \o files
             /\ requests' = Append(requests, [path |-> path,
                                              first |-> Len(tasks) + 1,
                                              last |-> Len(tasks) + Len(files)])
    /\ UNCHANGED <<argv, mode, max_threads, thread_pool, worker,
                   tick_scheduled, started, encrypted_found>>
    /\ UNCHANGED cli_vars
    /\ UNCHANGED other_vars

\* --------------------------------------------------------- process_queue
\* CanAdmit with the pool allowed one thread too many
CanAdmit_OneTooMany(pool, q) == Len(pool) <= max_threads /\ q # <<>>

\* a variant that does not look at the queue before it takes from it
CanAdmit_AnyQueue(pool, q) == Len(pool) < max_threads

\* a variant that keeps one slot free
CanAdmit_OneTooFew(pool, q) == Len(pool) + 1 < max_threads /\ q # <<>>

\* the condition of the admission loop
CanAdmit(pool, q) == Len(pool) < max_threads /\ q # <<>>

\* Dequeue taking the newest item, as a LifoQueue would
Dequeue_Lifo(q) == [item |-> q[Len(q)], rest |-> SubSeq(q, 1, Len(q) - 1)]

\* Dequeue leaving the item it takes on the queue
Dequeue_Peek(q) == [item |-> Head(q), rest |-> q]

\* task_queue.get(): the item taken and the queue left
Dequeue(q) == [item |-> Head(q), rest |-> Tail(q)]

\* the admission loop: the pool, the queue and the threads it started
RECURSIVE Admit(_, _, _)
Admit(pool, q, new) ==
    IF CanAdmit(pool, q)
    THEN LET got == Dequeue(q) IN
         IF got.item.task_type = "decrypt"
         THEN Admit(Append(pool, got.item.id), got.rest, Append(new, got.item))
         ELSE Admit(pool, got.rest, new)
    ELSE [pool |-> pool, queue |-> q, new |-> new]

\* list.remove(thread): drops the first occurrence
RECURSIVE Remove(_, _)
Remove(pool, id) ==
    IF pool = <<>> THEN <<>>
    ELSE IF Head(pool) = id THEN Tail(pool)
    ELSE <<Head(pool)>> \o Remove(Tail(pool), id)

\* Reap never removing a thread
Reap_Never(pool, i, w) == pool

\* for thread in thread_pool: if not thread.is_alive(): remove(thread)
\* the list iterator keeps an index into the list it is shrinking
RECURSIVE Reap(_, _, _)
Reap(pool, i, w) ==
    IF i > Len(pool) THEN pool
    ELSE IF ~ is_alive(w, pool[i]) THEN Reap(Remove(pool, pool[i]), i + 1, w)
    ELSE Reap(pool, i + 1, w)

\* a thread the pool no longer holds is kept only until it has ended and its
\* callbacks have run
Referenced(w, pool) ==
    [id \in {i \in DOMAIN w : is_alive(w, i) \/ i \in Range(pool) \/ HasCallback(w, i)}
        |-> w[id]]

\* the threads a tick has started, by id
Started(new) == [id \in {t.id : t \in Range(new)} |->
                    NewThread((CHOOSE t \in Range(new) : t.id = id).file_path)]

\* one tick of the scheduling timer, with every thread it starts starting
ProcessQueue ==
    /\ mode = "gui"
    /\ tick_scheduled >= 1
    /\ LET adm == Admit(thread_pool, task_queue, <<>>)
           w == Started(adm.new) @@ worker
       IN /\ task_queue' = adm.queue
          /\ started' = started \o [i \in 1..Len(adm.new) |-> adm.new[i].id]
          /\ thread_pool' = Reap(adm.pool, 1, w)
          /\ worker' = Referenced(w, thread_pool')
    /\ tick_scheduled' = after(tick_scheduled - 1)
    /\ UNCHANGED <<argv, mode, max_threads, tasks, requests, encrypted_found>>
    /\ UNCHANGED cli_vars
    /\ UNCHANGED other_vars

\* the admission loop of a tick in which the k-th thread.start() raises
\* (RuntimeError: can't start new thread): the item has been taken off the
\* queue, the thread is neither started nor appended, and the loop is left
\* for the handler
RECURSIVE AdmitUntil(_, _, _, _)
AdmitUntil(pool, q, new, k) ==
    IF CanAdmit(pool, q)
    THEN LET got == Dequeue(q) IN
         IF got.item.task_type = "decrypt"
         THEN IF k = 1
              THEN [pool |-> pool, queue |-> got.rest, new |-> new, raised |-> TRUE]
              ELSE AdmitUntil(Append(pool, got.item.id), got.rest,
                              Append(new, got.item), k - 1)
         ELSE AdmitUntil(pool, got.rest, new, k)
    ELSE [pool |-> pool, queue |-> q, new |-> new, raised |-> FALSE]

\* one tick that ends through its handler: except Exception logs the error
\* and re-arms the timer; the reaping loop is not reached
ProcessQueueStartFails ==
    /\ mode = "gui"
    /\ tick_scheduled >= 1
    /\ \E k \in 1..MaxTasks :
        LET adm == AdmitUntil(thread_pool, task_queue, <<>>, k)
            w == Started(adm.new) @@ worker
        IN /\ adm.raised
           /\ task_queue' = adm.queue
           /\ started' = started \o [i \in 1..Len(adm.new) |-> adm.new[i].id]
           /\ thread_pool' = adm.pool
           /\ worker' = Referenced(w, thread_pool')
    /\ tick_scheduled' = after(tick_scheduled - 1)
    /\ UNCHANGED <<argv, mode, max_threads, tasks, requests, encrypted_found>>
    /\ UNCHANGED cli_vars
    /\ UNCHANGED other_vars

\* --------------------------------------------------- process_decrypt_task
\* SkipsDecrypt skipping only the files found unencrypted
SkipsDecrypt_OnlyUnencrypted(status_code) == status_code = 0

\* if result['status_code'] != 1: skip
SkipsDecrypt(status_code) == status_code # 1

\* DriverSucceeded not looking at the path
DriverSucceeded_Always(decrypted_path) == TRUE

\* if decrypted_path:
DriverSucceeded(decrypted_path) == decrypted_path # NoPath

\* VerifyPassed accepting every status but Encrypted
VerifyPassed_NotEncrypted(status_code) == status_code # 1

\* if verify_result['status_code'] == 0:
VerifyPassed(status_code) == status_code = 0

\* the path the Driver reports for a file it decrypted
DecryptedOf(file_path) == Append(file_path, "out")

\* what a call of the Classifier can return, when it does not raise
ClassifierResults == StatusCodes

\* settings.get('wps_path'): None when no program is configured
ProgramPaths == {Get(settings, "wps_path", NoPath) : settings \in SettingsChoices}

\* what a call of the Driver on a file with a program path (None when no
\* program is configured) can return, when it does not raise: the Driver is
\* outside these files, so every result is open for every program path
DriverResults(file_path, program_path) == {DecryptedOf(file_path), NoPath}

\* the entries the worker defers at each of its six after(0, ...) calls
SkipEntries(w) == <<Entry("skipped", w.file_path, "info")>>
DecryptedEntries(w) == <<Entry("decrypt_ok", w.file_path, "success")>>
VerifiedEntries(w) == <<Entry("verify_ok", NoPath, "success")>>
WarningEntries(w) == <<Entry("verify_warn", NoPath, "warning")>>
FailedEntries(w) == <<Entry("decrypt_failed", w.file_path, "error")>>
ExceptEntries(w) == <<Entry("error", w.file_path, "error")>>

\* the worker goes on as w after deferring callbacks for entries
\* WorkerStep of a worker that inserts into the result panel itself instead
\* of deferring the entries
WorkerStep_Direct(id, w, entries) ==
    worker' = [worker EXCEPT ![id] = [w EXCEPT !.emitted = @ \o entries,
                                               !.rendered = @ \o entries]]

WorkerStep(id, w, entries) ==
    worker' = [worker EXCEPT ![id] = [w EXCEPT !.emitted = @ \o entries]]

\* WorkerRaises for a worker without handler: the thread dies of the
\* exception and defers nothing
WorkerRaises_Uncaught(id, w) ==
    WorkerStep(id, [w EXCEPT !.raised = TRUE, !.pc = "handler"], <<>>)

\* except Exception as e: the error entry is deferred, e stays bound until
\* the worker leaves the handler
WorkerRaises(id, w) ==
    LET h == [w EXCEPT !.raised = TRUE, !.pc = "handler"] IN
    WorkerStep(id, h, ExceptEntries(h))

worker_unchanged == <<argv, mode, max_threads, task_queue, thread_pool,
                      tick_scheduled, tasks, requests, started>>

\* result = self.detector.get_detection_result(file_path) and the skip
WorkerClassify(id) ==
    /\ mode = "gui"
    /\ id \in DOMAIN worker
    /\ worker[id].pc = "classify"
    /\ \/ /\ WorkerRaises(id, worker[id])
          /\ UNCHANGED encrypted_found
       \/ \E r \in ClassifierResults :
            /\ r = 1 => encrypted_found < MaxEncrypted
            /\ encrypted_found' = IF r = 1 THEN encrypted_found + 1
                                   ELSE encrypted_found
            /\ LET w == [worker[id] EXCEPT !.result = <<r>>] IN
               IF SkipsDecrypt(r)
               THEN WorkerStep(id, [w EXCEPT !.pc = "return"], SkipEntries(w))
               ELSE WorkerStep(id, [w EXCEPT !.pc = "driver"], <<>>)
    /\ UNCHANGED worker_unchanged
    /\ UNCHANGED cli_vars
    /\ UNCHANGED other_vars

\* decrypted_path = self.processor.process_encrypted_file(file_path, program_path)
WorkerDriver(id) ==
    /\ mode = "gui"
    /\ id \in DOMAIN worker
    /\ worker[id].pc = "driver"
    /\ LET c == [worker[id] EXCEPT !.driver_calls = @ + 1] IN
       \/ WorkerRaises(id, c)
       \/ \E program_path \in ProgramPaths :
          \E r \in DriverResults(worker[id].file_path, program_path) :
            LET w == [c EXCEPT !.decrypted_path = r] IN
            IF DriverSucceeded(r)
            THEN WorkerStep(id, [w EXCEPT !.pc = "verify"], DecryptedEntries(w))
            ELSE WorkerStep(id, [w EXCEPT !.pc = "return"], FailedEntries(w))
    /\ UNCHANGED <<worker_unchanged, encrypted_found>>
    /\ UNCHANGED cli_vars
    /\ UNCHANGED other_vars

\* verify_result = self.detector.get_detection_result(decrypted_path)
WorkerVerify(id) ==
    /\ mode = "gui"
    /\ id \in DOMAIN worker
    /\ worker[id].pc = "verify"
    /\ LET c == [worker[id] EXCEPT !.verify_calls = @ + 1] IN
       \/ WorkerRaises(id, c)
       \/ \E r \in ClassifierResults :
            LET w == [c EXCEPT !.verify_result = <<r>>, !.pc = "return"] IN
            IF VerifyPassed(r)
            THEN WorkerStep(id, w, VerifiedEntries(w))
            ELSE WorkerStep(id, w, WarningEntries(w))
    /\ UNCHANGED <<worker_unchanged, encrypted_found>>
    /\ UNCHANGED cli_vars
    /\ UNCHANGED other_vars

\* the frame of a thread that has ended: its locals are gone
Ended(w) == [NewThread(w.file_path) EXCEPT !.pc = "done", !.emitted = w.emitted,
                                           !.handled = w.handled,
                                           !.rendered = w.rendered]

\* the worker returns, or leaves its handler (which unbinds e), and ends
WorkerExit(id) ==
    /\ mode = "gui"
    /\ id \in DOMAIN worker
    /\ worker[id].pc \in {"return", "handler"}
    /\ worker' = [worker EXCEPT ![id] = Ended(@)]
    /\ UNCHANGED <<worker_unchanged, encrypted_found>>
    /\ UNCHANGED cli_vars
    /\ UNCHANGED other_vars

\* ------------------------------------------------------ deferred callback
\* the lambda of the error entry reads e of the worker's frame: it is
\* bound only while the worker is inside its handler
CanFormat(entry, w) == entry.kind # "error" \/ w.pc = "handler"

\* the coordinating thread runs the oldest callback that thread id has
\* deferred: the lambda formats its message and calls add_result, or dies
\* of a NameError
RunCallback(id) ==
    /\ mode = "gui"
    /\ id \in DOMAIN worker
    /\ HasCallback(worker, id)
    /\ LET w == worker[id]
           entry == w.emitted[w.handled + 1]
       IN worker' = [worker EXCEPT ![id] =
                        [w EXCEPT !.handled = @ + 1,
                                  !.rendered = IF CanFormat(entry, w)
                                               THEN add_result(@, entry) ELSE @]]
    /\ UNCHANGED <<argv, mode, max_threads, task_queue, thread_pool,
                   tick_scheduled, tasks, requests, started, encrypted_found>>
    /\ UNCHANGED cli_vars
    /\ UNCHANGED other_vars

\* ----------------------------------------------- main, compatibility loop
\* if result['status_code'] == 1: try to decrypt
CompatAttemptsDecrypt(status_code) == status_code = 1

\* elif result['status_code'] == 0: unencrypted, else: unrecognized
CompatUnencrypted(status_code) == status_code = 0

\* if decrypted_path:
CompatDriverSucceeded(decrypted_path) == decrypted_path # NoPath

\* if verify_result['status_code'] == 0:
CompatVerifyPassed(status_code) == status_code = 0

\* what the loop body did for one path: the results it got, the calls it
\* made, the lines it printed and whether an exception ended it
PathTrace(path, exists, result, driver_calls, decrypted, verify_calls, vresult, lines, raised) ==
    [path |-> path, exists |-> exists, result |-> result,
     driver_calls |-> driver_calls, decrypted_path |-> decrypted,
     verify_calls |-> verify_calls, verify_result |-> vresult, lines |-> lines,
     raised |-> raised]

\* the body of `for path in paths`; exists, c, d and v are the results of
\* os.path.exists, the Classifier, the Driver and the Classifier again, and
\* cx, dx, vx tell whether the call raises instead
CompatBody(path, exists, cx, c, dx, d, vx, v) ==
    IF ~ exists
    THEN PathTrace(path, FALSE, <<>>, 0, NoPath, 0, <<>>,
                   <<Line("not_found", path, <<>>)>>, FALSE)
    ELSE IF cx
    THEN PathTrace(path, TRUE, <<>>, 0, NoPath, 0, <<>>, <<>>, TRUE)
    ELSE LET l1 == <<Line("status", path, <<c>>)>> IN
    IF CompatAttemptsDecrypt(c)
    THEN LET l2 == l1 \o <<Line("trying", path, <<>>)>> IN
         IF dx
         THEN PathTrace(path, TRUE, <<c>>, 1, NoPath, 0, <<>>, l2, TRUE)
         ELSE IF CompatDriverSucceeded(d)
         THEN LET l3 == l2 \o <<Line("decrypt_ok", d, <<>>)>> IN
              IF vx
              THEN PathTrace(path, TRUE, <<c>>, 1, d, 1, <<>>, l3, TRUE)
              ELSE IF CompatVerifyPassed(v)
              THEN PathTrace(path, TRUE, <<c>>, 1, d, 1, <<v>>,
                             l3 \o <<Line("verify_ok", NoPath, <<>>)>>, FALSE)
              ELSE PathTrace(path, TRUE, <<c>>, 1, d, 1, <<v>>,
                             l3 \o <<Line("verify_warn", NoPath, <<>>)>>, FALSE)
         ELSE PathTrace(path, TRUE, <<c>>, 1, d, 0, <<>>,
                        l2 \o <<Line("decrypt_failed", NoPath, <<>>)>>, FALSE)
    ELSE IF CompatUnencrypted(c)
    THEN PathTrace(path, TRUE, <<c>>, 0, NoPath, 0, <<>>,
                   l1 \o <<Line("unencrypted_skip", NoPath, <<>>)>>, FALSE)
    ELSE PathTrace(path, TRUE, <<c>>, 0, NoPath, 0, <<>>,
                   l1 \o <<Line("unrecognized_skip", NoPath, <<>>)>>, FALSE)

\* one iteration of the loop; an exception leaves the loop for the handler
\* of main, which prints it and lets the program end
CompatPath ==
    /\ mode = "compat"
    /\ cli_i < Len(argv)
    /\ LET path == <<argv[cli_i + 1]>> IN
       \E program_path \in ProgramPaths, exists, cx, dx, vx \in BOOLEAN,
          c, v \in ClassifierResults :
       \E d \in DriverResults(path, program_path) :
        LET t == CompatBody(path, exists, cx, c, dx, d, vx, v) IN
        /\ cli_trace' = Append(cli_trace, t)
        /\ cli_i' = cli_i + 1
        /\ IF t.raised
           THEN /\ stdout' = stdout \o t.lines \o <<Line("program_error", NoPath, <<>>)>>
                /\ mode' = "error"
           ELSE /\ stdout' = stdout \o t.lines
                /\ mode' = mode
    /\ UNCHANGED argv
    /\ UNCHANGED gui_vars
    /\ UNCHANGED other_vars

\* ----------------------------------------------------- _compare_versions
\* A string is the sequence of its characters.
Digits == {"0", "1", "2", "3", "4", "5", "6", "7", "8", "9"}

DigitValue(c) ==
    CASE c = "0" -> 0 [] c = "1" -> 1 [] c = "2" -> 2 [] c = "3" -> 3
      [] c = "4" -> 4 [] c = "5" -> 5 [] c = "6" -> 6 [] c = "7" -> 7
      [] c = "8" -> 8 [] c = "9" -> 9

Whitespace == {" ", "\t"}

\* str.lstrip(chars) and str.rstrip(chars)
RECURSIVE lstrip(_, _)
lstrip(s, chars) ==
    IF s # <<>> /\ Head(s) \in chars THEN lstrip(Tail(s), chars) ELSE s

RECURSIVE rstrip(_, _)
rstrip(s, chars) ==
    IF s # <<>> /\ Last(s) \in chars
    THEN rstrip(SubSeq(s, 1, Len(s) - 1), chars)
    ELSE s

\* a variant that strips the left end only
strip_Left(s) == lstrip(s, Whitespace)

\* str.strip()
strip(s) == rstrip(lstrip(s, Whitespace), Whitespace)

\* str.split('.'): the pieces between the dots, empty pieces included
RECURSIVE split(_)
split(s) ==
    IF s = <<>> THEN << <<>> >>
    ELSE LET r == split(Tail(s)) IN
         IF Head(s) = "." THEN << <<>> >> \o r
         ELSE << <<Head(s)>> \o Head(r) >> \o Tail(r)

\* the value of a string of decimal digits
RECURSIVE DecimalValue(_)
DecimalValue(s) ==
    IF s = <<>> THEN 0
    ELSE 10 * DecimalValue(SubSeq(s, 1, Len(s) - 1)) + DigitValue(Last(s))

\* int(x) of a string: surrounding whitespace is dropped, one sign is
\* allowed, the rest is one or more decimal digits; <<n>> is the value and
\* <<>> stands for ValueError
int(x) ==
    LET t == strip(x)
        signed == t # <<>> /\ Head(t) \in {"+", "-"}
        d == IF signed THEN Tail(t) ELSE t
    IN IF d = <<>> \/ \E i \in DOMAIN d : d[i] \notin Digits THEN <<>>
       ELSE IF signed /\ Head(t) = "-" THEN <<0 - DecimalValue(d)>>
       ELSE <<DecimalValue(d)>>

\* [int(x) for x in version.split('.')]: <<parts>>, or <<>> when an int(x)
\* raises
Parts(version) ==
    LET pieces == split(version) IN
    IF \E i \in DOMAIN pieces : int(pieces[i]) = <<>> THEN <<>>
    ELSE << [i \in DOMAIN pieces |-> int(pieces[i])[1]] >>

\* parts.extend([0] * (max_len - len(parts)))
\* a variant that pads with ones
Extend_Ones(parts, max_len) ==
    parts \o [i \in 1..(max_len - Len(parts)) |-> 1]

Extend(parts, max_len) ==
    parts \o [i \in 1..(max_len - Len(parts)) |-> 0]

\* a comparison that looks at the first position only and never finds the
\* parts equal
CompareParts_FirstOnly(v1_parts, v2_parts, i) ==
    IF i > Len(v1_parts) THEN 0
    ELSE IF v1_parts[i] > v2_parts[i] THEN 1
    ELSE -1

\* for i in range(max_len): the first difference decides
RECURSIVE CompareParts(_, _, _)
CompareParts(v1_parts, v2_parts, i) ==
    IF i > Len(v1_parts) THEN 0
    ELSE IF v1_parts[i] > v2_parts[i] THEN 1
    ELSE IF v1_parts[i] < v2_parts[i] THEN -1
    ELSE CompareParts(v1_parts, v2_parts, i + 1)

\* _compare_versions(version1, version2); the bare except returns 0
compare_versions(v1, v2) ==
    IF Parts(v1) = <<>> \/ Parts(v2) = <<>> THEN 0
    ELSE LET max_len == IF Len(Parts(v1)[1]) > Len(Parts(v2)[1])
                        THEN Len(Parts(v1)[1]) ELSE Len(Parts(v2)[1])
         IN CompareParts(Extend(Parts(v1)[1], max_len),
                         Extend(Parts(v2)[1], max_len), 1)

\* the strings the comparison is applied to: every string over VersionChars
\* of up to MaxVersionLen characters, and some longer ones
VersionChars == {"0", "1", ".", "a"}

VersionExamples ==
    {<<"5", ".", "2">>, <<"5", ".", "1">>, <<"5", ".", "1", ".", "0">>,
     <<"1", "0">>, <<"9">>, <<"-", "1">>, <<" ", "1">>, <<"1", ".", "-", "1">>}

VersionStrings ==
    UNION {[1..n -> VersionChars] : n \in 0..MaxVersionLen} \cup VersionExamples

VersionInit ==
    /\ argv = <<>>
    /\ MainIdle
    /\ version1 \in VersionStrings
    /\ version2 \in VersionStrings
    /\ compared = <<>>
    /\ requests_available = TRUE
    /\ UpdateIdle
    /\ PanelIdle

\* one call of _compare_versions
CompareVersions ==
    /\ compared = <<>>
    /\ compared' = <<compare_versions(version1, version2)>>
    /\ UNCHANGED <<version1, version2>>
    /\ UNCHANGED <<main_vars, update_vars, panel_vars>>

VersionNext == CompareVersions

VersionSpec == VersionInit /\ [][VersionNext]_vars

\* ----------------------------------------------------- check_for_updates
\* current_version = "5.1"
current_version == <<"5", ".", "1">>

\* response.status_code == 200
HttpOk == 200

\* a value of the decoded JSON document: a key that is absent, null, or a
\* string
Absent == [type |-> "absent", value |-> <<>>]

Null == [type |-> "null", value |-> <<>>]

Str(s) == [type |-> "str", value |-> s]

\* release_info.get(key, default)
dict_get(v, default) == IF v.type = "absent" THEN Str(default) ELSE v

\* the exceptions the request can raise; ConnectTimeout is a subclass of
\* both ConnectionError and Timeout
RequestExceptions ==
    {"Timeout", "ConnectTimeout", "ConnectionError", "SSLError", "TooManyRedirects"}

\* what requests.get(api_url, timeout=10) does: it raises one of these
\* (the kind is then the class raised), or returns a response with a
\* status code whose body is no JSON ("invalid"), JSON that is no object
\* ("list"), or an object with the keys tag_name and body
Response(kind, status_code, json, tag_name, body) ==
    [kind |-> kind, status_code |-> status_code, json |-> json,
     tag_name |-> tag_name, body |-> body]

TagNames ==
    {Absent, Null} \cup {Str(s) : s \in VersionStrings}
    \cup {Str(<<"v">> \o s) : s \in VersionStrings}

Bodies == {Absent, Null, Str(<<"n">>)}

Responses ==
    {Response(k, 0, "none", Absent, Absent) : k \in RequestExceptions}
    \cup {Response("response", 404, "none", Absent, Absent)}
    \cup {Response("response", HttpOk, j, Absent, Absent) : j \in {"invalid", "list"}}
    \cup {Response("response", HttpOk, "object", t, b) : t \in TagNames, b \in Bodies}

\* what the try block of the thread did: the statuses it set, the callback
\* it deferred, the version it read, the value of the comparison and the
\* exception that ended it ("none" when it ran to its end)
Tried(statuses, deferred, latest, c, exc) ==
    [statuses |-> statuses, deferred |-> deferred, latest |-> latest,
     compared |-> c, exc |-> exc]

\* if self._compare_versions(latest_version, current_version) > 0:
IsNewer(c) == c > 0

\* the try block of check_updates_thread for one outcome of the request
TryBlock(resp) ==
    IF resp.kind # "response"
    THEN Tried(<<"checking">>, <<>>, <<>>, <<>>, resp.kind)
    ELSE IF resp.status_code # HttpOk
    THEN Tried(<<"checking", "failed">>, <<"http_warning">>, <<>>, <<>>, "none")
    ELSE IF resp.json = "invalid"
    THEN Tried(<<"checking">>, <<>>, <<>>, <<>>, "JSONDecodeError")
    ELSE IF resp.json # "object"
    THEN Tried(<<"checking">>, <<>>, <<>>, <<>>, "AttributeError")
    ELSE LET tag_name == dict_get(resp.tag_name, <<>>)
             release_notes == dict_get(resp.body, <<>>)
         IN
         IF tag_name.type # "str"
         THEN Tried(<<"checking">>, <<>>, <<>>, <<>>, "AttributeError")
         ELSE LET latest_version == lstrip(tag_name.value, {"v"})
                  c == compare_versions(latest_version, current_version)
              IN
              IF IsNewer(c)
              THEN IF release_notes.type # "str"
                   THEN Tried(<<"checking", "found">>, <<>>,
                              <<latest_version>>, <<c>>, "TypeError")
                   ELSE Tried(<<"checking", "found">>, <<"update_dialog">>,
                              <<latest_version>>, <<c>>, "none")
              ELSE Tried(<<"checking", "up_to_date">>, <<"up_to_date_info">>,
                         <<latest_version>>, <<c>>, "none")

\* isinstance(exc, clause) for the classes named in the except clauses
IsInstance(exc, clause) ==
    \/ clause = "Exception"
    \/ clause = exc
    \/ clause = "Timeout" /\ exc = "ConnectTimeout"
    \/ clause = "ConnectionError" /\ exc \in {"ConnectTimeout", "SSLError"}

\* a variant without the last clause
except_clauses_NoGeneric == <<"Timeout", "ConnectionError">>

\* the except clauses of the thread body, in their order
except_clauses == <<"Timeout", "ConnectionError", "Exception">>

\* the clause that handles an exception: the first one it is an instance
\* of, "escaped" when there is none
Handler(exc) ==
    LET matching == {i \in DOMAIN except_clauses : IsInstance(exc, except_clauses[i])}
    IN IF matching = {} THEN "escaped"
       ELSE except_clauses[CHOOSE i \in matching : \A j \in matching : i <= j]

\* the status a handler sets and the message box it defers
HandlerStatus(clause) ==
    CASE clause = "Timeout" -> <<"timeout">>
      [] clause = "ConnectionError" -> <<"network_error">>
      [] clause = "Exception" -> <<"failed">>
      [] OTHER -> <<>>

HandlerDeferred(clause) ==
    CASE clause = "Timeout" -> <<"timeout_warning">>
      [] clause = "ConnectionError" -> <<"network_warning">>
      [] clause = "Exception" -> <<"error">>
      [] OTHER -> <<>>

\* the end of check_updates_thread after its try block did t: the handler
\* of the exception that ended the block, if there is one
ExceptBlocks(t) ==
    IF t.exc = "none"
    THEN t @@ [escaped |-> FALSE]
    ELSE [statuses |-> t.statuses \o HandlerStatus(Handler(t.exc)),
          deferred |-> t.deferred \o HandlerDeferred(Handler(t.exc)),
          latest |-> t.latest, compared |-> t.compared, exc |-> t.exc,
          escaped |-> Handler(t.exc) = "escaped"]

\* the button: without requests the check ends at once with a warning,
\* otherwise the check thread is started
CheckForUpdates ==
    /\ mode = "gui"
    /\ update_pc = "idle"
    /\ IF ~ requests_available
       THEN /\ update_status' = Append(update_status, "unavailable")
            /\ update_shown' = Append(update_shown, "unavailable_warning")
            /\ update_pc' = "done"
       ELSE /\ update_pc' = "thread"
            /\ UNCHANGED <<update_status, update_shown>>
    /\ UNCHANGED <<requests_available, update_after, update_trace>>
    /\ UNCHANGED <<main_vars, version_vars, panel_vars>>

\* the check thread, from its first statement to its end
CheckUpdatesThread ==
    /\ update_pc = "thread"
    /\ \E resp \in Responses : \E t \in {TryBlock(resp)} :
        LET r == ExceptBlocks(t) IN
        /\ update_status' = update_status \o r.statuses
        /\ update_after' = update_after \o r.deferred
        /\ update_trace' = Append(update_trace,
                [response |-> resp, latest |-> r.latest, compared |-> r.compared,
                 exc |-> r.exc, escaped |-> r.escaped])
    /\ update_pc' = "done"
    /\ UNCHANGED <<requests_available, update_shown>>
    /\ UNCHANGED <<main_vars, version_vars, panel_vars>>

\* the coordinating thread runs the oldest deferred callback; the lambda
\* of the error box reads e, which is unbound once the thread has left its
\* handler: it shows the box only if it runs before that
RunUpdateCallback ==
    /\ update_after # <<>>
    /\ \E bound \in BOOLEAN :
        update_shown' = IF Head(update_after) # "error" \/ bound
                        THEN Append(update_shown, Head(update_after))
                        ELSE update_shown
    /\ update_after' = Tail(update_after)
    /\ UNCHANGED <<requests_available, update_pc, update_status, update_trace>>
    /\ UNCHANGED <<main_vars, version_vars, panel_vars>>

UpdateInit ==
    /\ argv = <<>>
    /\ MainIdle
    /\ VersionIdle
    /\ requests_available \in BOOLEAN
    /\ UpdateIdle
    /\ PanelIdle

UpdateNext ==
    \/ Main
    \/ CheckForUpdates
    \/ CheckUpdatesThread
    \/ RunUpdateCallback

UpdateSpec == UpdateInit /\ [][UpdateNext]_vars

\* ------------------------------------------- add_extension and add_header
\* what the user can have typed into a field
FieldChars == {" ", "\t", "a"}

FieldStrings == UNION {[1..n -> FieldChars] : n \in 0..MaxFieldLen}

\* a call of the registry (config_manager): its name, its arguments and
\* what it returned (TRUE where the result is not used)
Call(name, args, result) == [name |-> name, args |-> args, result |-> result]

\* the extension button, pressed with typed in the extension field; one add
\* operation is followed per run, a handler reads no field but its own
AddExtension ==
    /\ mode = "gui"
    /\ panel_op.op = "none"
    /\ \E typed \in FieldStrings :
        LET extension == strip(typed) IN
        IF extension = <<>>
        THEN /\ extension_var' = typed
             /\ panel_op' = PanelOp("add_extension", <<typed>>, <<>>,
                                    <<"warning_no_extension">>, <<>>)
        ELSE /\ extension_var' = <<>>
             /\ panel_op' = PanelOp("add_extension", <<typed>>,
                                    <<Call("add_extension", <<extension>>, TRUE)>>,
                                    <<"extension_added">>, <<extension>>)
    /\ UNCHANGED <<header_var, header_type_var>>
    /\ UNCHANGED <<main_vars, version_vars, update_vars>>

\* a variant that takes every answer of the registry for an acceptance
HeaderAccepted_Always(result) == TRUE

\* if self.config_manager.add_header(header_hex, file_type):
HeaderAccepted(result) == result

\* the header button, pressed with typed_header and typed_type in the two
\* fields; the registry accepts the pair or rejects it
AddHeader ==
    /\ mode = "gui"
    /\ panel_op.op = "none"
    /\ \E typed_header, typed_type \in FieldStrings, result \in BOOLEAN :
        LET header_hex == strip(typed_header)
            file_type == strip(typed_type)
            input == <<typed_header, typed_type>>
            calls == <<Call("add_header", <<header_hex, file_type>>, result)>>
        IN
        IF header_hex = <<>> \/ file_type = <<>>
        THEN /\ header_var' = typed_header
             /\ header_type_var' = typed_type
             /\ panel_op' = PanelOp("add_header", input, <<>>,
                                    <<"warning_no_header">>, <<>>)
        ELSE IF HeaderAccepted(result)
        THEN /\ header_var' = <<>>
             /\ header_type_var' = <<>>
             /\ panel_op' = PanelOp("add_header", input, calls,
                                    <<"header_added">>, <<header_hex \o file_type>>)
        ELSE /\ header_var' = typed_header
             /\ header_type_var' = typed_type
             /\ panel_op' = PanelOp("add_header", input, calls,
                                    <<"warning_invalid_hex">>, <<>>)
    /\ UNCHANGED extension_var
    /\ UNCHANGED <<main_vars, version_vars, update_vars>>

PanelInit ==
    /\ argv = <<>>
    /\ MainIdle
    /\ VersionIdle
    /\ requests_available = TRUE
    /\ UpdateIdle
    /\ PanelIdle

PanelNext ==
    \/ Main
    \/ AddExtension
    \/ AddHeader

PanelSpec == PanelInit /\ [][PanelNext]_vars

\* ------------------------------------------------------------------ Next
Next ==
    \/ Main
    \/ DecryptFile
    \/ ProcessQueue
    \/ \E id \in 1..MaxTasks : WorkerClassify(id)
    \/ \E id \in 1..MaxTasks : WorkerDriver(id)
    \/ \E id \in 1..MaxTasks : WorkerVerify(id)
    \/ \E id \in 1..MaxTasks : WorkerExit(id)
    \/ \E id \in 1..MaxTasks : RunCallback(id)
    \/ CompatPath

Spec == Init /\ [][Next]_vars

\* One batch: the window is opened and the user asks for one decryption,
\* of a file or of a directory.  Termination of the batch is claimed for the
\* runs in which the timer keeps firing and every worker goes on until it
\* ends.
BatchInit == Init /\ argv = <<>>

BatchBegin == requests = <<>> /\ DecryptFile

WorkerRuns ==
    \E id \in 1..MaxTasks :
        WorkerClassify(id) \/ WorkerDriver(id) \/ WorkerVerify(id) \/ WorkerExit(id)

BatchNext ==
    \/ Main
    \/ BatchBegin
    \/ ProcessQueue
    \/ WorkerRuns
    \/ \E id \in 1..MaxTasks : RunCallback(id)

Fairness ==
    /\ WF_vars(ProcessQueue)
    /\ WF_vars(WorkerRuns)

FairSpec == BatchInit /\ [][BatchNext]_vars /\ Fairness

\* The scheduler in an environment in which the start of a thread can fail.
StartNext == Next \/ ProcessQueueStartFails

StartSpec == Init /\ [][StartNext]_vars

\* ---------------------------------------------------------------- claims
\* the threads that are running
Running == {id \in DOMAIN worker : is_alive(worker, id)}

\* task id is on the queue
InQueue(id) == \E k \in 1..Len(task_queue) : task_queue[k].id = id

Kinds(entries) == [i \in 1..Len(entries) |-> entries[i].kind]

IsPrefix(a, b) == Len(a) <= Len(b) /\ SubSeq(b, 1, Len(a)) = a

\* thread id has ended and every callback it deferred has run
Reported(id) ==
    id \in DOMAIN worker /\ worker[id].pc = "done" /\ ~ HasCallback(worker, id)

\* C1: at no time are more decrypt workers running than max_threads, the
\* value read from the configuration at construction (5 when unset), nor
\* does the pool hold more threads than that.
C1_BoundedConcurrency ==
    /\ Cardinality(Running) <= max_threads
    /\ Len(thread_pool) <= max_threads

\* C1 witness: the pool is full of running workers while a task waits.
C1_Witness ==
    /\ max_threads = 1
    /\ Cardinality(Running) = max_threads
    /\ task_queue # <<>>

WorkerReports ==
    {<<"skipped">>, <<"decrypt_failed">>, <<"decrypt_ok", "verify_ok">>,
     <<"decrypt_ok", "verify_warn">>, <<"error">>, <<"decrypt_ok", "error">>}

TerminalKinds == {"skipped", "decrypt_failed", "verify_ok", "verify_warn", "error"}

\* the worker of task id has ended, having deferred the outcome of the task
Finished(id) ==
    /\ id \in DOMAIN worker
    /\ worker[id].pc = "done"
    /\ worker[id].emitted # <<>>
    /\ Last(worker[id].emitted).kind \in TerminalKinds

Traces == Range(cli_trace)

\* C4: a task (or path argument) whose classification is not Encrypted gets
\* no Driver call and no Verifier call and ends with a skip: in the window
\* the worker defers the skip entry alone and returns, on the command line
\* the loop prints one of its two skip lines last.
C4_NoDriverUnlessEncrypted ==
    /\ \A id \in DOMAIN worker :
        LET w == worker[id] IN
        (w.result # <<>> /\ w.result[1] # 1) =>
            /\ w.driver_calls = 0
            /\ w.verify_calls = 0
            /\ w.pc = "return"
            /\ w.emitted = <<Entry("skipped", w.file_path, "info")>>
    /\ \A t \in Traces :
        (t.result # <<>> /\ t.result[1] # 1) =>
            /\ t.driver_calls = 0
            /\ t.verify_calls = 0
            /\ ~ t.raised
            /\ Last(t.lines).kind \in {"unencrypted_skip", "unrecognized_skip"}

\* C4 witness: a worker has skipped a file classified Missing.
C4_Witness ==
    \E id \in DOMAIN worker :
        /\ worker[id].result = <<-1>>
        /\ Kinds(worker[id].emitted) = <<"skipped">>

\* C5: after a Driver success the outcome is "verified" exactly when the
\* decrypted path classifies as Unencrypted (0); every other status gives
\* the warning.  The Verifier runs only on a path the Driver returned.
C5_VerifiedOnlyIfUnencrypted ==
    /\ \A id \in DOMAIN worker :
        LET w == worker[id] IN
        /\ w.verify_calls > 0 => w.decrypted_path # NoPath
        /\ w.verify_result # <<>> =>
            /\ w.decrypted_path # NoPath
            /\ Len(w.emitted) = 2
            /\ w.emitted[1].kind = "decrypt_ok"
            /\ w.emitted[2] = IF w.verify_result[1] = 0
                              THEN Entry("verify_ok", NoPath, "success")
                              ELSE Entry("verify_warn", NoPath, "warning")
    /\ \A t \in Traces :
        /\ t.verify_calls > 0 => t.decrypted_path # NoPath
        /\ t.verify_result # <<>> =>
            Last(t.lines).kind = IF t.verify_result[1] = 0
                                 THEN "verify_ok" ELSE "verify_warn"

\* C5 witness: a decrypted file classified Unrecognized got the warning.
C5_Witness ==
    \E id \in DOMAIN worker :
        /\ worker[id].verify_result = <<2>>
        /\ Last(worker[id].emitted).kind = "verify_warn"

\* C6: when the Driver returns no path (whatever program path is configured,
\* none included), the task ends with "decryption failed", without Verifier
\* call and without success entry; the window keeps its timer and the
\* compatibility loop goes on with the next path.
C6_DriverFailureReported ==
    /\ \A id \in DOMAIN worker :
        LET w == worker[id] IN
        (w.driver_calls = 1 /\ w.decrypted_path = NoPath /\ ~ w.raised) =>
            /\ w.pc = "return"
            /\ w.verify_calls = 0
            /\ w.emitted = <<Entry("decrypt_failed", w.file_path, "error")>>
            /\ tick_scheduled = 1
    /\ \A i \in 1..Len(cli_trace) :
        LET t == cli_trace[i] IN
        (t.driver_calls = 1 /\ t.decrypted_path = NoPath /\ ~ t.raised) =>
            /\ t.verify_calls = 0
            /\ Last(t.lines).kind = "decrypt_failed"
            /\ "decrypt_ok" \notin Range(Kinds(t.lines))
            /\ i = Len(cli_trace) => mode = "compat"

\* C6 witness: the Driver returned no path, the failure of the task is on
\* the panel, and a task put later is running.
C6_Witness ==
    \E id, later \in DOMAIN worker :
        /\ worker[id].driver_calls = 1
        /\ worker[id].decrypted_path = NoPath
        /\ worker[id].pc = "return"
        /\ Kinds(worker[id].rendered) = <<"decrypt_failed">>
        /\ later > id
        /\ later \in Running

\* thread id catches an exception in this step
Catches(id) ==
    /\ id \in DOMAIN worker
    /\ id \in DOMAIN worker'
    /\ ~ worker[id].raised
    /\ worker'[id].raised

\* C7: an exception raised in a worker by the Classifier, the Driver or the
\* Verifier is caught there: the worker defers one error entry naming its
\* file as its last entry and goes on to its end; the step changes neither
\* the queue, the pool, the timer nor any other thread.
C7_WorkerFailureContained ==
    /\ [](\A id \in DOMAIN worker :
            worker[id].raised =>
                /\ worker[id].pc = "handler"
                /\ worker[id].emitted # <<>>
                /\ Last(worker[id].emitted) = Entry("error", worker[id].file_path, "error")
                /\ Cardinality({k \in 1..Len(worker[id].emitted) :
                                    worker[id].emitted[k].kind = "error"}) = 1
                /\ tick_scheduled = 1)
    /\ [][\A id \in 1..MaxTasks :
            Catches(id) =>
                /\ task_queue' = task_queue
                /\ thread_pool' = thread_pool
                /\ tick_scheduled' = tick_scheduled
                /\ DOMAIN worker' = DOMAIN worker
                /\ \A other \in DOMAIN worker \ {id} : worker'[other] = worker[other]]_vars

\* C7 witness: one worker has caught an exception, another one has gone on
\* to its outcome.
C7_Witness ==
    \E a, b \in DOMAIN worker :
        /\ a # b
        /\ worker[a].raised
        /\ worker[b].pc = "return"

\* C8: threads are started in the order in which their tasks were put on
\* the queue (ids number the puts).
C8_FifoAdmission ==
    \A i, j \in 1..Len(started) : i < j => started[i] < started[j]

\* C8 witness: the second task admitted has ended while the first is still
\* running.
C8_Witness ==
    /\ Len(started) >= 2
    /\ 1 \in Running
    /\ 2 \in DOMAIN worker
    /\ worker[2].pc = "done"

\* the regular files below a directory
FilesUnder(dir) ==
    {f \in RegularFiles : Len(f) > Len(dir) /\ SubSeq(f, 1, Len(dir)) = dir}

\* C9: a decrypt request on a directory puts one task for each regular file
\* below it, and a request on another path one task for that path; the
\* Classifier and the Driver are not called for it: no thread exists for a
\* queued task, and the step that puts tasks changes no thread.
C9_DirectoryEnqueue ==
    /\ [](/\ \A k \in 1..Len(requests) :
                LET r == requests[k]
                    ids == r.first..r.last
                IN IF isdir(r.path)
                   THEN /\ {tasks[i] : i \in ids} = FilesUnder(r.path)
                        /\ Cardinality(ids) = Cardinality(FilesUnder(r.path))
                   ELSE /\ r.last = r.first
                        /\ tasks[r.first] = r.path
          /\ \A k \in 1..Len(task_queue) : task_queue[k].id \notin DOMAIN worker)
    /\ [][Len(tasks') > Len(tasks) =>
            /\ worker' = worker
            /\ encrypted_found' = encrypted_found
            /\ Len(task_queue') - Len(task_queue) = Len(tasks') - Len(tasks)]_vars

\* C9 witness: a request on directory d has put its two files, one of them
\* from the directory below.
C9_Witness ==
    \E k \in 1..Len(requests) :
        /\ requests[k].path = <<"d">>
        /\ requests[k].last = requests[k].first + 1
        /\ tasks[requests[k].last] = <<"d", "s", "b">>

\* the state of task id: none (not put yet), queued, running, terminal
TaskState(id, q, w, n) ==
    IF id \in DOMAIN w /\ is_alive(w, id) THEN "running"
    ELSE IF \E k \in 1..Len(q) : q[k].id = id THEN "queued"
    ELSE IF id <= n THEN "terminal"
    ELSE "none"

C11_ExactlyOnceConsumption ==
    /\ \A id \in 1..Len(tasks) :
        /\ ~ InQueue(id) =>
              Cardinality({i \in 1..Len(started) : started[i] = id}) = 1
        /\ InQueue(id) => id \notin Range(started)
    /\ \A id \in Running :
        Cardinality({i \in 1..Len(thread_pool) : thread_pool[i] = id}) = 1


\* the lines of the compatibility loop that report the outcome of a path
OutcomeKinds ==
    {"not_found", "unencrypted_skip", "unrecognized_skip",
     "verify_ok", "verify_warn", "decrypt_failed"}

\* C12: for every path argument whose processing raised no exception the
\* loop prints exactly one of the six outcomes; a path that does not exist
\* is reported as not found with no Classifier and no Driver call; and a
\* path is reported as unrecognized only when its classification is
\* Unrecognized.
C12_PerPathOutcome ==
    \A t \in Traces :
        ~ t.raised =>
            /\ Cardinality({i \in DOMAIN t.lines : t.lines[i].kind \in OutcomeKinds}) = 1
            /\ ~ t.exists =>
                  /\ Last(t.lines).kind = "not_found"
                  /\ t.result = <<>>
                  /\ t.driver_calls = 0
                  /\ t.verify_calls = 0
            /\ Last(t.lines).kind = "unrecognized_skip" => t.result = <<Unrecognized>>


\* the i-th integer of a version, zero beyond its end
PartAt(parts, i) == IF i <= Len(parts) THEN parts[i] ELSE 0

\* lexicographic comparison of two integer sequences, the shorter one
\* continued with zeros: decided by the first position where they differ
Lexicographic(a, b) ==
    LET n == IF Len(a) > Len(b) THEN Len(a) ELSE Len(b)
        differ == {i \in 1..n : PartAt(a, i) # PartAt(b, i)}
    IN IF differ = {} THEN 0
       ELSE LET k == CHOOSE i \in differ : \A j \in differ : i <= j
            IN IF PartAt(a, k) > PartAt(b, k) THEN 1 ELSE -1

\* C13: for two versions that parse, _compare_versions returns the
\* lexicographic comparison of their integer sequences after zero padding;
\* compare("5.2", "5.1") = 1, compare("5.1", "5.1.0") = 0 and
\* compare("5.1", "5.2") = -1.
C13_VersionComparison ==
    compared # <<>> =>
        /\ (Parts(version1) # <<>> /\ Parts(version2) # <<>>) =>
              compared[1] = Lexicographic(Parts(version1)[1], Parts(version2)[1])
        /\ (version1 = <<"5", ".", "2">> /\ version2 = <<"5", ".", "1">>) =>
              compared[1] = 1
        /\ (version1 = <<"5", ".", "1">> /\ version2 = <<"5", ".", "1", ".", "0">>) =>
              compared[1] = 0
        /\ (version1 = <<"5", ".", "1">> /\ version2 = <<"5", ".", "2">>) =>
              compared[1] = -1

\* a shorter version has been compared with a longer one that continues it
\* with a zero
C13_Witness ==
    /\ version1 = <<"5", ".", "1">>
    /\ version2 = <<"5", ".", "1", ".", "0">>
    /\ compared = <<0>>


\* the update dialog has been deferred to the coordinating thread or shown
Announced ==
    "update_dialog" \in Range(update_after) \cup Range(update_shown)

\* C14: when the release tag is absent, empty or has a component that is no
\* integer, the comparison returns 0 and the check ends with the status
\* "already up to date"; and a finished check has announced a new version
\* if and only if the comparison of the latest version with "5.1" returned 1.
C14_UnparseableMeansNoUpdate ==
    \A i \in DOMAIN update_trace :
        LET t == update_trace[i] IN
        /\ (t.latest # <<>> /\ Parts(t.latest[1]) = <<>>) =>
              /\ t.compared = <<0>>
              /\ Last(update_status) = "up_to_date"
        /\ (t.response.json = "object" /\ t.response.tag_name = Absent) =>
              /\ t.compared = <<0>>
              /\ Last(update_status) = "up_to_date"
        /\ Announced <=> t.compared = <<1>>


\* the five statuses of a check that was carried out
CheckStatuses == {"found", "up_to_date", "timeout", "network_error", "failed"}

\* what a finished check that made its request ended with: a timeout ends
\* with the timeout status, a connection failure with the network status,
\* any other failure and a response other than 200 with the generic
\* failure, a check without failure with "found" or "up to date"; no
\* exception has escaped the thread
OutcomeOfCheck(t) ==
    /\ ~ t.escaped
    /\ t.exc \in {"Timeout", "ConnectTimeout"} => Last(update_status) = "timeout"
    /\ t.exc \in {"ConnectionError", "SSLError"} => Last(update_status) = "network_error"
    /\ t.exc \notin {"none", "Timeout", "ConnectTimeout", "ConnectionError", "SSLError"} =>
          Last(update_status) = "failed"
    /\ (t.exc = "none" /\ t.response.status_code # HttpOk) =>
          Last(update_status) = "failed"
    /\ (t.exc = "none" /\ t.response.status_code = HttpOk) =>
          Last(update_status) \in {"found", "up_to_date"}

\* C15: every update check ends with exactly one status among new version
\* found, already up to date, timeout, network error and generic failure;
\* timeout, connection failure and any other failure (a response other than
\* 200 included) have their own status; no exception escapes the thread.
C15_FiveOutcomes ==
    update_pc = "done" =>
        /\ Last(update_status) \in CheckStatuses
        /\ \A i \in DOMAIN update_trace : OutcomeOfCheck(update_trace[i])

\* C15, amended: a check ends with one of six statuses: "feature
\* unavailable" exactly when the requests module could not be imported (no
\* request is made then), otherwise one of the five, as above.
C15_UpdateOutcomes ==
    update_pc = "done" =>
        /\ Last(update_status) \in CheckStatuses \cup {"unavailable"}
        /\ Last(update_status) = "unavailable" <=> ~ requests_available
        /\ ~ requests_available <=> update_trace = <<>>
        /\ \A i \in DOMAIN update_trace : OutcomeOfCheck(update_trace[i])

\* a check whose connection attempt timed out has ended with the timeout
\* status
C15_Witness ==
    /\ update_pc = "done"
    /\ update_trace # <<>>
    /\ update_trace[1].exc = "ConnectTimeout"
    /\ Last(update_status) = "timeout"


\* the window has been created
WindowCreated == tick_scheduled >= 1

\* C16: each run of main selects exactly one mode from its arguments: no
\* argument starts the window; a first argument that is, in any case of
\* letters, a help or version flag prints the usage or the version and
\* processes no file; one that is check, unlock, scan or batch-unlock hands
\* over to the command-line interface; any other first argument runs the
\* compatibility loop, which takes every argument, the first included, as a
\* path and processes the paths in the order given.
C16_EntryPointDispatch ==
    mode # "init" =>
        LET first_arg == IF argv = <<>> THEN "" ELSE Lower(argv[1]) IN
        /\ mode \in {"gui", "help", "version", "cli", "compat", "error"}
        /\ mode = "gui" <=> argv = <<>>
        /\ mode = "help" <=> first_arg \in {"-h", "--help", "help"}
        /\ mode = "version" <=> first_arg \in {"-v", "--version", "version"}
        /\ mode = "cli" <=> first_arg \in {"check", "unlock", "scan", "batch-unlock"}
        /\ WindowCreated <=> mode = "gui"
        /\ mode \in {"help", "version"} => stdout = <<Line(mode, NoPath, <<>>)>>
        /\ mode \notin {"compat", "error"} => cli_trace = <<>>
        /\ mode # "gui" => tasks = <<>>
        /\ Len(cli_trace) <= Len(argv)
        /\ \A i \in DOMAIN cli_trace : cli_trace[i].path = <<argv[i]>>
        /\ (mode = "compat" /\ cli_i = Len(argv)) => Len(cli_trace) = Len(argv)

\* the compatibility loop has processed two different paths, in the order
\* of the arguments
C16_Witness ==
    /\ mode = "compat"
    /\ Len(cli_trace) = 2
    /\ cli_trace[1].path = <<argv[1]>>
    /\ cli_trace[2].path = <<argv[2]>>
    /\ argv[1] # argv[2]


\* s is t without its surrounding whitespace: a piece of t that neither
\* begins nor ends with whitespace, with nothing but whitespace around it
IsTrimOf(s, t) ==
    /\ s = <<>> \/ (Head(s) \notin Whitespace /\ Last(s) \notin Whitespace)
    /\ \E i \in 1..(Len(t) + 1) :
        /\ i + Len(s) - 1 <= Len(t)
        /\ s = SubSeq(t, i, i + Len(s) - 1)
        /\ \A j \in 1..Len(t) : (j < i \/ j >= i + Len(s)) => t[j] \in Whitespace

\* C17: add_extension trims the input; when nothing is left it warns, makes
\* no registry call and changes nothing; otherwise it calls the registry's
\* add operation exactly once, with the trimmed value.
C17_AddExtension ==
    panel_op.op = "add_extension" =>
        LET typed == panel_op.input[1] IN
        IF IsTrimOf(<<>>, typed)
        THEN /\ panel_op.calls = <<>>
             /\ panel_op.shown = <<"warning_no_extension">>
             /\ panel_op.logged = <<>>
             /\ extension_var = typed
        ELSE /\ Len(panel_op.calls) = 1
             /\ panel_op.calls[1].name = "add_extension"
             /\ Len(panel_op.calls[1].args) = 1
             /\ IsTrimOf(panel_op.calls[1].args[1], typed)

\* an extension typed after a blank has been added without the blank
C17_Witness ==
    /\ panel_op.op = "add_extension"
    /\ panel_op.input = << <<" ", "a">> >>
    /\ panel_op.calls = <<Call("add_extension", << <<"a">> >>, TRUE)>>


\* C18: when the registry rejects the header, add_header shows the warning
\* at once, reports no success, logs nothing and leaves both fields as they
\* were typed; when the header or the type is empty after trimming the
\* registry is not called at all; success is reported only when the
\* registry accepted the entry.
C18_AddHeader ==
    panel_op.op = "add_header" =>
        LET typed_header == panel_op.input[1]
            typed_type == panel_op.input[2]
        IN
        /\ (IsTrimOf(<<>>, typed_header) \/ IsTrimOf(<<>>, typed_type)) =>
              panel_op.calls = <<>>
        /\ \A i \in DOMAIN panel_op.calls :
              ~ panel_op.calls[i].result =>
                  /\ panel_op.shown = <<"warning_invalid_hex">>
                  /\ panel_op.logged = <<>>
                  /\ header_var = typed_header
                  /\ header_type_var = typed_type
        /\ "header_added" \in Range(panel_op.shown) =>
              /\ Len(panel_op.calls) = 1
              /\ panel_op.calls[1].name = "add_header"
              /\ panel_op.calls[1].result

\* the registry has rejected a header that was typed with its type
C18_Witness ==
    /\ panel_op.op = "add_header"
    /\ panel_op.calls # <<>>
    /\ ~ panel_op.calls[1].result
    /\ header_var = <<"a", " ">>
    /\ panel_op.shown = <<"warning_invalid_hex">>


\* C19: at the end of every tick the pool holds no thread that had already
\* ended when the tick began its reaping pass, however many such threads
\* there were and wherever they stood in the pool.
C19_SlotReclamation ==
    [][ProcessQueue =>
        \A id \in Range(thread_pool') :
            id \in DOMAIN worker => is_alive(worker, id)]_vars


RECURSIVE GetsOfTick(_, _)
GetsOfTick(pool, q) ==
    IF CanAdmit(pool, q)
    THEN IF q = <<>> THEN << q >>
         ELSE LET got == Dequeue(q) IN
              << q >> \o GetsOfTick(IF got.item.task_type = "decrypt"
                                    THEN Append(pool, got.item.id) ELSE pool,
                                    got.rest)
    ELSE <<>>

C22_OutcomeMarshaling ==
    \A id \in DOMAIN worker :
        LET w == worker[id] IN
        /\ Len(w.rendered) <= w.handled
        /\ w.handled <= Len(w.emitted)
        /\ IsPrefix(w.rendered, SubSeq(w.emitted, 1, w.handled))
        /\ \A i, j \in DOMAIN w.rendered :
              /\ w.rendered[i].kind = "decrypt_ok"
              /\ w.rendered[j].kind \in {"verify_ok", "verify_warn"}
              => i < j

\* C22 witness: the decryption-success entry of a worker is on the panel
\* while its verification entry is deferred and its callback has not run.
C22_Witness ==
    \E id \in DOMAIN worker :
        /\ Kinds(worker[id].emitted) = <<"decrypt_ok", "verify_warn">>
        /\ worker[id].handled = 1
        /\ Kinds(worker[id].rendered) = <<"decrypt_ok">>


\* C23: outcomes are attributable.  Every entry that a decrypt worker has
\* delivered to the result panel carries the path of the worker's task.
C23_OutcomesAttributable ==
    \A id \in DOMAIN worker :
        \A i \in DOMAIN worker[id].rendered :
            worker[id].rendered[i].path = worker[id].file_path


\* C24: partial-failure tolerance of the compatibility loop.  A path whose
\* processing raised an exception never ends the batch: after it the loop
\* is still running, or every path argument has been processed.
C24_PartialFailureTolerance ==
    \A i \in DOMAIN cli_trace :
        cli_trace[i].raised =>
            \/ mode = "compat"
            \/ Len(cli_trace) = Len(argv)


\* C25: error outcomes are always rendered.  Once a worker that caught an
\* exception has ended and every callback it deferred has run, the error
\* entry it deferred, naming the file and the error, is on the result panel,
\* whatever the order of the worker leaving its handler and the callback
\* running.
C25_ErrorOutcomesRendered ==
    \A id \in DOMAIN worker :
        Reported(id) =>
            \A i \in DOMAIN worker[id].emitted :
                worker[id].emitted[i].kind = "error" =>
                    \E j \in DOMAIN worker[id].rendered :
                        worker[id].rendered[j] = worker[id].emitted[i]


\* C26: the tick perpetuates itself.  From the construction of the window
\* on exactly one tick is pending: every tick, whether it ended normally or
\* through its exception handler, has armed the timer exactly once, so the
\* loop never stops and ticks never multiply; without a window there is no
\* tick.
C26_TickPerpetuates ==
    /\ mode = "gui" => tick_scheduled = 1
    /\ mode # "gui" => tick_scheduled = 0

\* C26 witness: one tick is pending after a tick that ended through its
\* handler (the task it took off the queue has no thread) and after ticks
\* that ended normally (another task has been started).
C26_Witness ==
    /\ mode = "gui"
    /\ tick_scheduled = 1
    /\ started # <<>>
    /\ \E id \in 1..Len(tasks) : ~ InQueue(id) /\ id \notin Range(started)


\* C27: the version comparison is antisymmetric and insensitive to a
\* trailing zero.  For every two strings, parseable or not,
\* _compare_versions(a, b) = -_compare_versions(b, a) and
\* _compare_versions(a, a) = 0; for every parseable a,
\* _compare_versions(a, a + ".0") = 0 and _compare_versions(a + ".0", a) = 0.
C27_Antisymmetric ==
    compared # <<>> =>
        LET zero == version1 \o <<".", "0">> IN
        /\ compared[1] = 0 - compare_versions(version2, version1)
        /\ version1 = version2 => compared[1] = 0
        /\ compare_versions(version1, version1) = 0
        /\ version2 = zero /\ Parts(version1) # <<>> => compared[1] = 0
        /\ Parts(version1) # <<>> =>
              /\ Parts(zero) # <<>>
              /\ compare_versions(version1, zero) = 0
              /\ compare_versions(zero, version1) = 0

\* C27 witness: a parseable version has been compared with itself continued
\* by ".0", and the comparison in the other order gives the same 0.
C27_Witness ==
    /\ version1 = <<"1">>
    /\ version2 = <<"1", ".", "0">>
    /\ compared = <<0>>
    /\ compare_versions(version2, version1) = 0

====
